---- MODULE Spec2Model ----
(***************************************************************************)
(* State-machine model of the tree-view widget: the NodeStore              *)
(* (src/unnamed/part_000) and the TreeView container that drives it        *)
(* (src/src/TreeView.tsx).  One action per handler; asynchronous handlers  *)
(* are split at their await into a start action and a completion action.   *)
(***************************************************************************)
EXTENDS Integers, Sequences, FiniteSets, TLC

\* ------------------------------------------------------------------------
\* Bounds of the model
\* ------------------------------------------------------------------------
MaxGuid == 3
MaxLen == 2
MaxPending == 2
MaxSteps == 6
MaxMsgs == 2

Guids == 1..MaxGuid
\* "no identifier": null / undefined / "" of the source
NoGuid == 0
Contexts == {"c1", "c2"}
NoContext == "null"
Queries == {"", "x"}
StorageKeys == Contexts \cup {"TreeViewState"}
MsgIds == {"m1", "m2"}

VARIABLES
    props,              \* TreeView props that configure the store (fixed per run)
    db,                 \* the backing records: parent reference and root attribute
    contextObject,      \* NodeStore.contextObject
    entries,            \* NodeStore.entries
    filter,             \* NodeStore.filter
    searchQuery,        \* NodeStore.searchQuery
    isLoading,          \* NodeStore.isLoading
    resetState,         \* NodeStore.resetState
    expandedMapping,    \* NodeStore.expandedMapping
    validationMessages, \* NodeStore.validationMessages
    storage,            \* the local/session storage behind writeTableState
    writes,             \* snapshots handed to writeTableState by the last handler
    fetches,            \* _fetchData calls awaiting their records, per context
    loads,              \* _fetchChildren calls awaiting their records
    searches,           \* search flows awaiting the search handler, per query
    refreshes,          \* entryHandler calls awaiting getObject
    subscriptions,      \* per guid, the Entry objects whose change subscription is active
    loadedFor,          \* the context whose initial load gave the collection
    hung,               \* the single thread is stuck in a loop that never ends
    last,               \* the handler that ran last, with its arguments
    steps               \* the number of handlers run so far

vars == <<props, db, contextObject, entries, filter, searchQuery, isLoading,
          resetState, expandedMapping, validationMessages, storage, writes, fetches, loads,
          searches, refreshes, subscriptions, loadedFor, hung, last, steps>>

\* ------------------------------------------------------------------------
\* Sequence helpers
\* ------------------------------------------------------------------------
Range(s) == {s[i] : i \in 1..Len(s)}

SeqsUpTo(S, n) == UNION {[1..k -> S] : k \in 0..n}

RECURSIVE SelectIdx(_, _, _)
\* the indices i of s, ascending, with i \in keep
SelectIdx(s, keep, i) ==
    IF i > Len(s) THEN <<>>
    ELSE (IF i \in keep THEN <<i>> ELSE <<>>) \o SelectIdx(s, keep, i + 1)

RemoveAt(s, i) == SubSeq(s, 1, i - 1) \o SubSeq(s, i + 1, Len(s))

\* ------------------------------------------------------------------------
\* Entries
\* ------------------------------------------------------------------------
\* EntryObjectExtraOptions as the two callers build them: _fetchData passes
\* {isRoot: scenario = "top", isLoaded: scenario = "all"} (optParent = NoGuid),
\* _fetchChildren passes {parent: <guid of the parent>} (optParent = guid).
NewEntry(g, optParent) ==
    [guid        |-> g,
     parent      |-> IF optParent # NoGuid THEN optParent
                     ELSE IF props.relationType = "nodeParent" THEN db.parent[g]
                     ELSE NoGuid,
     root        |-> (optParent = NoGuid /\ ~props.loadFull) \/ db.root[g],
     hasChildren |-> \E c \in Guids : db.parent[c] = g,
     isLoaded    |-> optParent = NoGuid /\ props.loadFull,
     isExpanded  |-> FALSE,
     selected    |-> FALSE,
     optParent   |-> optParent]

createEntryObject(g, optParent) == NewEntry(g, optParent)

\* obj.children of an entry: the child references of its record
ChildrenOf(g) ==
    IF props.relationType = "nodeChildren"
    THEN {c \in Guids : db.parent[c] = g}
    ELSE {}

Ids(es) == {es[i].guid : i \in 1..Len(es)}

\* entries.findIndex(e => e.guid === guid), 0 when there is none
FindIndex(es, g) ==
    IF g \in Ids(es)
    THEN CHOOSE i \in 1..Len(es) :
            es[i].guid = g /\ \A j \in 1..(i - 1) : es[j].guid # g
    ELSE 0

findEntry(es, g) == FindIndex(es, g)

expandedKeys(es) == {es[i].guid : i \in {j \in 1..Len(es) : es[j].isExpanded}}

selectedEntriesIds(es) == {es[i].guid : i \in {j \in 1..Len(es) : es[j].selected}}

\* ------------------------------------------------------------------------
\* The store as a value: handlers are composed as functions on this record
\* ------------------------------------------------------------------------
St ==
    [entries |-> entries, filter |-> filter, searchQuery |-> searchQuery,
     isLoading |-> isLoading, contextObject |-> contextObject,
     resetState |-> resetState, expandedMapping |-> expandedMapping,
     validationMessages |-> validationMessages,
     storage |-> storage, writes |-> <<>>, loads |-> loads,
     subscriptions |-> subscriptions, over |-> FALSE, hung |-> FALSE]

\* A pending _fetchChildren call: the guid of parentObject, whether it was given
\* expandAfter (always the parent's own guid, line 369), and whether parentObject
\* is still the object held in the collection.
LoadKinds == [parent : Guids, ea : BOOLEAN, attached : BOOLEAN]

\* loads is the set of the kinds in flight, each with the number n >= 1 of calls
CountOf(ld, k) ==
    IF \E x \in ld : x.kind = k THEN (CHOOSE x \in ld : x.kind = k).n ELSE 0

SetCount(ld, k, n) ==
    {x \in ld : x.kind # k} \cup (IF n > 0 THEN {[kind |-> k, n |-> n]} ELSE {})

LoadCount(ld) ==
    LET RECURSIVE Sum(_)
        Sum(K) == IF K = {} THEN 0
                  ELSE LET k == CHOOSE x \in K : TRUE IN k.n + Sum(K \ {k})
    IN Sum(ld)

\* parentObject of every pending load for a guid of G is no longer in the
\* collection
DetachLoads(ld, G) ==
    LET detached(k) == [k EXCEPT !.attached = FALSE]
        kinds == {detached(x.kind) : x \in {y \in ld : y.kind.parent \in G}}
    IN  {x \in ld : x.kind.parent \notin G} \cup
        {[kind |-> k,
          n |-> CountOf(ld, k) + CountOf(ld, [k EXCEPT !.attached = TRUE])] : k \in kinds}

\* ------------------------------------------------------------------------
\* Persistence (TreeView._writeTableState / _getInitialState)
\* ------------------------------------------------------------------------
StorageKey(ctx) == IF props.sharedKey THEN "TreeViewState" ELSE ctx

TableState(ctx, expanded, selected) ==
    [context |-> ctx, expanded |-> expanded, selected |-> selected]

writeTableState(S, state) ==
    [S EXCEPT !.writes = Append(@, state),
              !.storage = IF props.stateManagement
                          THEN [@ EXCEPT ![StorageKey(state.context)] = <<state>>]
                          ELSE @]

\* The pair <<store after the call, the state returned>>; expired: the stored
\* snapshot is older than stateLocalStorageTime.
getInitialTableState(S, ctx, expired) ==
    LET emptyState == TableState(ctx, {}, {})
        stored == S.storage[StorageKey(ctx)]
    IN  IF ~props.stateManagement THEN <<S, emptyState>>
        ELSE IF stored = <<>> THEN <<writeTableState(S, emptyState), emptyState>>
        ELSE IF ~expired THEN <<S, stored[1]>>
        ELSE <<writeTableState(S, emptyState), emptyState>>

\* _onExpandChange without the test of the context object
_onExpandChangeAlways(S) ==
    writeTableState(S, TableState(S.contextObject,
                                  expandedKeys(S.entries),
                                  selectedEntriesIds(S.entries)))

_onExpandChange(S) ==
    IF S.contextObject # NoContext
    THEN writeTableState(S, TableState(S.contextObject,
                                       expandedKeys(S.entries),
                                       selectedEntriesIds(S.entries)))
    ELSE S

\* ------------------------------------------------------------------------
\* Entry mutators (EntryObject), applied to the entry at index i
\* ------------------------------------------------------------------------
setExpanded(S, i, state, onChange) ==
    LET S1 == [S EXCEPT !.entries[i].isExpanded = state]
    IN  IF onChange THEN _onExpandChange(S1) ELSE S1

setSelected(S, i, state) == [S EXCEPT !.entries[i].selected = state]

setLoaded(S, i, state) == [S EXCEPT !.entries[i].isLoaded = state]

setHasChildren(S, i, state) == [S EXCEPT !.entries[i].hasChildren = state]

setParent(S, i, g) == [S EXCEPT !.entries[i].parent = g]

\* ------------------------------------------------------------------------
\* Child loading and expansion
\* ------------------------------------------------------------------------
\* _fetchChildren up to its await: nothing under the "all" scenario, otherwise
\* the call is in flight with parentObject = the entry found for g.
childLoader(S, g, ea) ==
    IF props.loadFull THEN S
    ELSE IF LoadCount(S.loads) >= MaxPending THEN [S EXCEPT !.over = TRUE]
    ELSE LET k == [parent |-> g, ea |-> ea, attached |-> TRUE]
         IN  [S EXCEPT !.isLoading = TRUE, !.loads = SetCount(@, k, CountOf(@, k) + 1)]

\* expandKey without the check of isLoaded: the flag is set at once
expandKeyEager(S, g, expanded, onChange) ==
    LET i == findEntry(S.entries, g)
    IN  IF i = 0 THEN S ELSE setExpanded(S, i, expanded, onChange)

expandKey(S, g, expanded, onChange) ==
    LET i == findEntry(S.entries, g)
    IN  IF i = 0 THEN S
        ELSE IF expanded /\ ~S.entries[i].isLoaded
             THEN childLoader(S, g, TRUE)
             ELSE setExpanded(S, i, expanded, onChange)

RECURSIVE ExpandKeys(_, _, _, _)
\* gs.forEach(g => this.expandKey(g, expanded, onChange))
ExpandKeys(S, gs, expanded, onChange) ==
    IF gs = <<>> THEN S
    ELSE ExpandKeys(expandKey(S, Head(gs), expanded, onChange),
                    Tail(gs), expanded, onChange)

\* ------------------------------------------------------------------------
\* Derived views: treeMapping, getParents, entryList, entryTree
\* ------------------------------------------------------------------------
MaxOf(I) == CHOOSE i \in I : \A j \in I : j <= i

\* child guid -> parent guid (NoGuid: no key); a later entry overwrites
treeMapping(es) ==
    [g \in Guids |->
        IF props.relationType = "nodeChildren"
        THEN LET P == {i \in 1..Len(es) : g \in ChildrenOf(es[i].guid)}
             IN  IF P = {} THEN NoGuid ELSE es[MaxOf(P)].guid
        ELSE LET P == {i \in 1..Len(es) : es[i].guid = g /\ es[i].parent # NoGuid}
             IN  IF P = {} THEN NoGuid ELSE es[MaxOf(P)].parent]

RECURSIVE ParentWalk(_, _, _, _)
\* the while loop of getParents, cut after `fuel` iterations: the indices of
\* the entries pushed
ParentWalk(es, tm, parentGuid, fuel) ==
    IF parentGuid = NoGuid \/ fuel = 0 THEN <<>>
    ELSE LET i == findEntry(es, parentGuid)
         IN  IF i = 0 THEN <<>>
             ELSE <<i>> \o ParentWalk(es, tm, tm[es[i].guid], fuel - 1)

\* the loop of getParents never ends: it pushes more entries than there are
\* identifiers, so it is going round a cycle of the mapping
Diverges(es, g) ==
    Len(ParentWalk(es, treeMapping(es), treeMapping(es)[g], Len(es) + 1)) > Len(es)

getParents(es, g) ==
    ParentWalk(es, treeMapping(es), treeMapping(es)[g], Len(es) + 1)

\* entry.obj as entryList hands it on
TreeObject(es, i, highlight) ==
    LET tm == treeMapping(es)
    IN  [guid      |-> es[i].guid,
         parent    |-> IF props.relationType = "nodeChildren" /\ tm[es[i].guid] # NoGuid
                       THEN tm[es[i].guid] ELSE es[i].parent,
         root      |-> es[i].root,
         highlight |-> highlight]

RECURSIVE PushParents(_, _, _)
\* parentsArray.forEach: push each parent whose guid is not yet in rawGuids
PushParents(es, raw, ps) ==
    IF ps = <<>> THEN raw
    ELSE LET o == TreeObject(es, Head(ps), FALSE)
         IN  PushParents(es,
                         IF o.guid \in {raw[k].guid : k \in 1..Len(raw)}
                         THEN raw ELSE Append(raw, o),
                         Tail(ps))

RECURSIVE PushAllParents(_, _, _)
\* parents.forEach over the matched entries, in order
PushAllParents(es, raw, ms) ==
    IF ms = <<>> THEN raw
    ELSE PushAllParents(es,
                        PushParents(es, raw, getParents(es, es[Head(ms)].guid)),
                        Tail(ms))

entryList(S) ==
    LET es == S.entries
    IN  IF S.searchQuery # ""
        THEN LET ms == SelectIdx(es, {i \in 1..Len(es) : es[i].guid \in S.filter}, 1)
                 rawEntries == [k \in 1..Len(ms) |-> TreeObject(es, ms[k], TRUE)]
             IN  PushAllParents(es, rawEntries, ms)
        ELSE [i \in 1..Len(es) |-> TreeObject(es, i, FALSE)]

\* arrayToTree: an item whose parent is empty or names no item of the list goes
\* to the root group, every other item under its parent
IsTop(L, i) == L[i].parent = NoGuid \/ L[i].parent \notin {L[k].guid : k \in 1..Len(L)}

TopIdx(L) == SelectIdx(L, {i \in 1..Len(L) : IsTop(L, i)}, 1)

ChildIdx(L, i) ==
    SelectIdx(L, {j \in 1..Len(L) : ~IsTop(L, j) /\ L[j].parent = L[i].guid}, 1)

\* entryTree without its filter: the whole root group
entryTreeTopUnfiltered(L) == TopIdx(L)

\* entryTree: the root group without the elements that have no parent and are
\* not root
entryTreeTop(L) ==
    SelectIdx(L, {i \in 1..Len(L) :
                    IsTop(L, i) /\ ~(L[i].parent = NoGuid /\ ~L[i].root)}, 1)

RECURSIVE TreeReach(_, _, _)
TreeReach(L, I, fuel) ==
    LET J == I \cup {j \in 1..Len(L) :
                        \E i \in I : ~IsTop(L, j) /\ L[j].parent = L[i].guid}
    IN  IF J = I \/ fuel = 0 THEN I ELSE TreeReach(L, J, fuel - 1)

\* the indices of the list that occur as nodes of entryTree
entryTree(L) == TreeReach(L, Range(entryTreeTop(L)), Len(L))

RECURSIVE walkTree(_, _, _, _)
\* expandAll's walk over the branches bs (indices of L), depth first
walkTree(S, L, bs, fuel) ==
    IF bs = <<>> \/ fuel = 0 THEN S
    ELSE LET b == Head(bs)
             cs == ChildIdx(L, b)
             i == findEntry(S.entries, L[b].guid)
             S1 == IF cs # <<>> /\ i # 0 THEN setExpanded(S, i, TRUE, TRUE) ELSE S
             S2 == IF cs # <<>> THEN walkTree(S1, L, cs, fuel - 1) ELSE S1
         IN  walkTree(S2, L, Tail(bs), fuel)

expandAll(S) ==
    LET L == entryList(S)
    IN  walkTree(S, L, entryTreeTop(L), Len(L) + 1)

RECURSIVE CollapseFrom(_, _)
CollapseFrom(S, i) ==
    IF i > Len(S.entries) THEN S
    ELSE CollapseFrom(IF S.entries[i].isExpanded
                      THEN setExpanded(S, i, FALSE, TRUE) ELSE S, i + 1)

collapseAll(S) == CollapseFrom(S, 1)

\* ------------------------------------------------------------------------
\* NodeStore.setEntries and the handlers built on it
\* ------------------------------------------------------------------------
stateFull == props.stateManagement /\ props.loadFull

RECURSIVE RestoreExpanded(_, _, _)
\* this.entries.forEach(entry => keys has entry.guid && entry.setExpanded(true))
RestoreExpanded(S, keys, i) ==
    IF i > Len(S.entries) THEN S
    ELSE RestoreExpanded(IF S.entries[i].guid \in keys
                         THEN setExpanded(S, i, TRUE, TRUE) ELSE S,
                         keys, i + 1)

RECURSIVE RestoreSelected(_, _, _)
\* this.entries.forEach(entry => keys has entry.guid && entry.setSelected(true))
RestoreSelected(S, keys, i) ==
    IF i > Len(S.entries) THEN S
    ELSE RestoreSelected(IF S.entries[i].guid \in keys
                         THEN setSelected(S, i, TRUE) ELSE S,
                         keys, i + 1)

RECURSIVE MergeEntries(_, _, _)
\* entries.forEach over the new entries: replace at clonedIds.indexOf(guid),
\* push when that is -1; clonedIds is computed once, before the loop
MergeEntries(cloned, clonedIds, new) ==
    IF new = <<>> THEN cloned
    ELSE LET e == Head(new)
             index == IF e.guid \in Range(clonedIds)
                      THEN CHOOSE i \in 1..Len(clonedIds) :
                              /\ clonedIds[i] = e.guid
                              /\ \A j \in 1..(i - 1) : clonedIds[j] # e.guid
                      ELSE 0
         IN  MergeEntries(IF index # 0 THEN [cloned EXCEPT ![index] = e]
                          ELSE Append(cloned, e),
                          clonedIds, Tail(new))

\* the restore from storage without its pass over the selected keys
CleanRestoreExpandedOnly(S, new, expired) ==
    LET ctx == S.contextObject
    IN  IF props.loadFull /\ ctx # NoContext /\ stateFull
        THEN LET got == getInitialTableState(S, ctx, expired)
             IN  RestoreExpanded(got[1], got[2].expanded \cap Ids(new), 1)
        ELSE S

\* the restore from storage with its two passes in the other order
CleanRestoreExpansionFirst(S, new, expired) ==
    LET ctx == S.contextObject
    IN  IF props.loadFull /\ ctx # NoContext /\ stateFull
        THEN LET got == getInitialTableState(S, ctx, expired)
                 S1 == RestoreExpanded(got[1], got[2].expanded \cap Ids(new), 1)
             IN  RestoreSelected(S1, got[2].selected \cap Ids(new), 1)
        ELSE S

CleanRestore(S, new, expired) ==
    LET ctx == S.contextObject
    IN  IF props.loadFull /\ ctx # NoContext
        THEN IF ~stateFull /\ S.expandedMapping[ctx] # <<>>
             THEN LET mapping == S.expandedMapping[ctx][1]
                      S1 == writeTableState(S, TableState(ctx, mapping, {}))
                  IN  RestoreExpanded(S1, mapping, 1)
             ELSE IF stateFull
             THEN LET got == getInitialTableState(S, ctx, expired)
                      initialSelected == got[2].selected \cap Ids(new)
                      initialExpanded == got[2].expanded \cap Ids(new)
                      S1 == RestoreSelected(got[1], initialSelected, 1)
                  IN  RestoreExpanded(S1, initialExpanded, 1)
             ELSE S
        ELSE S

\* the number of records of recs with guid g
Occurrences(recs, g) == Cardinality({k \in 1..Len(recs) : recs[k] = g})

\* new EntryObject(...) for each record: each Entry subscribes to its record
subscribeAll(subs, recs) == [g \in Guids |-> subs[g] + Occurrences(recs, g)]

\* entry.clearSubscriptions() on n Entry objects of guid g
clearSubscriptions(subs, g, n) == [subs EXCEPT ![g] = @ - n]

\* the merge loop's cloned[index].clearSubscriptions(): one Entry is released
\* for every new record whose guid was in the collection before the loop
ClearReplaced(subs, old, recs) ==
    [g \in Guids |->
        IF g \in Ids(old) THEN clearSubscriptions(subs, g, Occurrences(recs, g))[g]
        ELSE subs[g]]

setEntries(S, recs, optParent, clean, expandAfter, expired) ==
    LET new == [k \in 1..Len(recs) |-> createEntryObject(recs[k], optParent)]
        S0 == [S EXCEPT !.subscriptions = subscribeAll(@, recs)]
        S1 == IF clean
              THEN CleanRestore([S0 EXCEPT !.entries = new,
                                          !.filter = {},
                                          !.searchQuery = "",
                                          !.loads = DetachLoads(@, Guids)],
                                new, expired)
              ELSE [S0 EXCEPT
                      !.entries = MergeEntries(@, [k \in 1..Len(@) |-> @[k].guid], new),
                      !.subscriptions = ClearReplaced(@, S.entries, recs),
                      !.loads = DetachLoads(@, Range(recs) \cap Ids(S.entries))]
    IN  IF expandAfter # NoGuid THEN expandKey(S1, expandAfter, TRUE, TRUE) ELSE S1

setEntry(S, g, optParent) == setEntries(S, <<g>>, optParent, FALSE, NoGuid, FALSE)

removeEntry(S, g) ==
    LET found == FindIndex(S.entries, g)
    IN  IF found # 0
        THEN [S EXCEPT !.entries = RemoveAt(@, found),
                       !.subscriptions = clearSubscriptions(@, g, 1),
                       !.loads = DetachLoads(@, {g})]
        ELSE S

\* ------------------------------------------------------------------------
\* Selection
\* ------------------------------------------------------------------------
\* selectEntry without the pass that deselects the other selected entries
selectEntryKeepOthers(S, g, expandChange) ==
    IF ~props.holdSelection THEN S
    ELSE LET i == findEntry(S.entries, g)
             S2 == IF i # 0 THEN setSelected(S, i, TRUE) ELSE S
         IN  IF expandChange THEN _onExpandChange(S2) ELSE S2

selectEntry(S, g, expandChange) ==
    IF ~props.holdSelection THEN S
    ELSE LET es == S.entries
             selectedFound == \E i \in 1..Len(es) : es[i].selected /\ es[i].guid = g
             S1 == [S EXCEPT !.entries =
                        [i \in 1..Len(es) |->
                            IF es[i].selected /\ es[i].guid # g
                            THEN [es[i] EXCEPT !.selected = FALSE] ELSE es[i]]]
             i == findEntry(S1.entries, g)
             S2 == IF ~selectedFound /\ i # 0 THEN setSelected(S1, i, TRUE) ELSE S1
         IN  IF expandChange THEN _onExpandChange(S2) ELSE S2

switchEntryParent(S, nodeGuid, targetParent) ==
    IF nodeGuid = NoGuid \/ targetParent = NoGuid
       \/ props.relationType = "nodeChildren"
    THEN S
    ELSE LET node == findEntry(S.entries, nodeGuid)
             parent == findEntry(S.entries, targetParent)
         IN  IF node = 0 \/ parent = 0 THEN S
             ELSE IF S.entries[node].root THEN S
             ELSE setParent(S, node, S.entries[parent].guid)

setSelectedFromExternal(S, g) ==
    IF ~props.holdSelection THEN S
    ELSE LET es == S.entries
             found == FindIndex(es, g)
         IN  IF found = 0 THEN S
             ELSE IF Diverges(es, g) THEN [S EXCEPT !.hung = TRUE]
             ELSE LET ps == getParents(es, g)
                      parentIds == [k \in 1..Len(ps) |-> es[ps[k]].guid]
                      ex == SelectIdx(es, {i \in 1..Len(es) :
                                /\ es[i].isExpanded
                                /\ es[i].guid \notin Range(parentIds)}, 1)
                      toCollapse == [k \in 1..Len(ex) |-> es[ex[k]].guid]
                      S1 == ExpandKeys(S, toCollapse, FALSE, FALSE)
                      S2 == ExpandKeys(S1, parentIds, TRUE, FALSE)
                  IN  selectEntry(S2, g, TRUE)

\* ------------------------------------------------------------------------
\* Context
\* ------------------------------------------------------------------------
\* setContext without the test of the search query
setContextAlwaysSnapshot(S, obj) ==
    LET cur == S.contextObject
        S1 == IF cur = NoContext \/ obj = NoContext \/ cur # obj
              THEN [S EXCEPT !.resetState = TRUE] ELSE S
        S2 == IF cur # NoContext
              THEN writeTableState(
                       [S1 EXCEPT !.expandedMapping[cur] = <<expandedKeys(S.entries)>>],
                       TableState(cur, expandedKeys(S.entries),
                                  selectedEntriesIds(S.entries)))
              ELSE S1
    IN  [S2 EXCEPT !.contextObject = obj]

setContext(S, obj) ==
    LET cur == S.contextObject
        S1 == IF cur = NoContext \/ obj = NoContext \/ cur # obj
              THEN [S EXCEPT !.resetState = TRUE] ELSE S
        S2 == IF cur # NoContext /\ S.searchQuery = ""
              THEN writeTableState(
                       [S1 EXCEPT !.expandedMapping[cur] = <<expandedKeys(S.entries)>>],
                       TableState(cur, expandedKeys(S.entries),
                                  selectedEntriesIds(S.entries)))
              ELSE S1
    IN  [S2 EXCEPT !.contextObject = obj]

\* ------------------------------------------------------------------------
\* Validation messages and the disabled flag
\* ------------------------------------------------------------------------
Messages == [id : MsgIds, fatal : BOOLEAN]

\* the disabled flag taken as "any message is present"
disabledOnAnyMessage(S) ==
    Len(S.validationMessages) > 0 \/ S.contextObject = NoContext

disabled(S) ==
    LET fatalCount == Len(SelectSeq(S.validationMessages, LAMBDA m : m.fatal))
    IN  fatalCount > 0 \/ S.contextObject = NoContext

addValidationMessage(S, message) ==
    [S EXCEPT !.validationMessages = Append(@, message)]

removeValidationMessage(S, id) ==
    LET messages == S.validationMessages
        F == {i \in 1..Len(messages) : messages[i].id = id}
    IN  IF F # {}
        THEN [S EXCEPT !.validationMessages =
                 RemoveAt(messages, CHOOSE i \in F : \A j \in F : i <= j)]
        ELSE S

\* ------------------------------------------------------------------------
\* Actions
\* ------------------------------------------------------------------------
\* flag: the records were null (a completion), the `expanded` argument
\* (expandKey), the message is fatal (add) or was found (remove); str: the context, the query or the state of parentObject;
\* expired: the stored snapshot was too old (the initial load); prevQuery: the
\* search query before search(q) was called; issued: the query of the latest
\* search that reached the search handler; prevSel: the argument of the
\* selectEntry that ran just before this one
Op(op, g, recs, ids, str, flag) ==
    [op |-> op, guid |-> g, recs |-> recs, ids |-> ids, str |-> str,
     flag |-> flag, expired |-> FALSE,
     prevQuery |-> IF op = "search" THEN searchQuery ELSE "",
     issued |-> IF op = "search" /\ props.searchEnabled THEN str ELSE last.issued,
     prevSel |-> IF op = "selectEntry" /\ last.op = "selectEntry"
                 THEN last.guid ELSE NoGuid]

\* the handler ran to its end and left the store as S
Commit(S) ==
    /\ ~S.over
    /\ steps < MaxSteps
    /\ steps' = steps + 1
    /\ entries' = S.entries
    /\ filter' = S.filter
    /\ searchQuery' = S.searchQuery
    /\ isLoading' = S.isLoading
    /\ contextObject' = S.contextObject
    /\ resetState' = S.resetState
    /\ expandedMapping' = S.expandedMapping
    /\ validationMessages' = S.validationMessages
    /\ storage' = S.storage
    /\ writes' = S.writes
    /\ loads' = S.loads
    /\ subscriptions' = S.subscriptions
    /\ hung' = S.hung
    /\ UNCHANGED <<props, db>>

RecordLists == SeqsUpTo(Guids, MaxLen)

Pending(f) ==
    LET RECURSIVE Sum(_)
        Sum(K) == IF K = {} THEN 0
                  ELSE LET k == CHOOSE x \in K : TRUE IN f[k] + Sum(K \ {k})
    IN Sum(DOMAIN f)

\* TreeView.componentWillReceiveProps: setContext, then setLoading(true) and
\* _fetchData up to its await when there is a context object
ReceiveProps(obj) ==
    /\ ~hung
    /\ obj # NoContext => Pending(fetches) < MaxPending
    /\ LET S == setContext(St, obj)
       IN  Commit(IF obj # NoContext THEN [S EXCEPT !.isLoading = TRUE] ELSE S)
    /\ fetches' = IF obj # NoContext THEN [fetches EXCEPT ![obj] = @ + 1] ELSE fetches
    /\ last' = Op("setContext", NoGuid, <<>>, {}, obj, FALSE)
    /\ UNCHANGED <<searches, refreshes, loadedFor>>

\* _fetchData after its await: objects = recs, or null
FetchDataDone(c, recs, null, expired) ==
    /\ ~hung
    /\ fetches[c] > 0
    /\ null => recs = <<>>
    /\ expired => stateFull /\ contextObject # NoContext
                    /\ storage[StorageKey(contextObject)] # <<>>
    /\ LET S == setEntries(St, recs, NoGuid, TRUE, NoGuid, expired)
       IN  Commit([S EXCEPT !.isLoading = FALSE])
    /\ fetches' = [fetches EXCEPT ![c] = @ - 1]
    /\ last' = [Op("fetchDataDone", NoGuid, recs, {}, c, null) EXCEPT !.expired = expired]
    /\ loadedFor' = c
    /\ UNCHANGED <<searches, refreshes>>

\* NodeStore.expandKey called by the view
ExpandKey(g, expanded) ==
    /\ ~hung
    /\ Commit(expandKey(St, g, expanded, TRUE))
    /\ last' = Op("expandKey", g, <<>>, {}, "", expanded)
    /\ UNCHANGED <<fetches, searches, refreshes, loadedFor>>

\* NodeStore.loadEntryChildren called by the view with an entry of the collection
LoadEntryChildren(g) ==
    /\ ~hung
    /\ g \in Ids(entries)
    /\ Commit(childLoader(St, g, FALSE))
    /\ last' = Op("loadEntryChildren", g, <<>>, {}, "", FALSE)
    /\ UNCHANGED <<fetches, searches, refreshes, loadedFor>>

\* _fetchChildren after its await: objects = recs, or null
FetchChildrenDone(k, recs, null) ==
    /\ ~hung
    /\ CountOf(loads, k) > 0
    /\ null => recs = <<>>
    /\ LET S0 == [St EXCEPT !.loads = SetCount(@, k, CountOf(@, k) - 1)]
           g == k.parent
           S1 == IF ~null
                 THEN LET M == setEntries(S0, recs, g, FALSE,
                                          IF k.ea THEN g ELSE NoGuid, FALSE)
                          i == findEntry(M.entries, g)
                      IN  IF k.attached /\ g \notin Range(recs)
                          THEN setLoaded(M, i, TRUE) ELSE M
                 ELSE LET i == findEntry(S0.entries, g)
                      IN  IF k.attached
                          THEN setLoaded(setHasChildren(S0, i, FALSE), i, TRUE)
                          ELSE S0
       IN  Commit([S1 EXCEPT !.isLoading = FALSE])
    /\ last' = Op("fetchChildrenDone", k.parent, recs,
                  IF k.ea THEN {k.parent} ELSE {},
                  IF k.attached THEN "attached" ELSE "detached", null)
    /\ UNCHANGED <<fetches, searches, refreshes, loadedFor>>

SelectEntry(g) ==
    /\ ~hung
    /\ Commit(selectEntry(St, g, TRUE))
    /\ last' = Op("selectEntry", g, <<>>, {}, "", FALSE)
    /\ UNCHANGED <<fetches, searches, refreshes, loadedFor>>

\* NodeStore.switchEntryParent called by the view; an argument left out is NoGuid
SwitchEntryParent(nodeGuid, targetParent) ==
    /\ ~hung
    /\ Commit(switchEntryParent(St, nodeGuid, targetParent))
    /\ last' = Op("switchEntryParent", nodeGuid, <<targetParent>>, {}, "", FALSE)
    /\ UNCHANGED <<fetches, searches, refreshes, loadedFor>>

SetSelectedFromExternal(g) ==
    /\ ~hung
    /\ Commit(setSelectedFromExternal(St, g))
    /\ last' = Op("setSelectedFromExternal", g, <<>>, {}, "", FALSE)
    /\ UNCHANGED <<fetches, searches, refreshes, loadedFor>>

\* NodeStore.search up to its yield
Search(q) ==
    /\ ~hung
    /\ props.searchEnabled => Pending(searches) < MaxPending
    /\ Commit(IF props.searchEnabled
              THEN [St EXCEPT !.isLoading = TRUE, !.searchQuery = q] ELSE St)
    /\ searches' = IF props.searchEnabled
                   THEN [searches EXCEPT ![q] = @ + 1] ELSE searches
    /\ last' = Op("search", NoGuid, <<>>, {}, q, FALSE)
    /\ UNCHANGED <<fetches, refreshes, loadedFor>>

\* NodeStore.search after its yield: objects = the records with guids ids, or null
SearchDone(q, ids, null) ==
    /\ ~hung
    /\ searches[q] > 0
    /\ null => ids = {}
    /\ LET S0 == [St EXCEPT !.isLoading = FALSE]
           S1 == [S0 EXCEPT !.filter = ids]
       IN  Commit(IF null THEN S0
                  ELSE IF q # "" /\ ids # {}
                  THEN IF S1.searchQuery # "" /\
                          \E g \in ids \cap Ids(S1.entries) : Diverges(S1.entries, g)
                       THEN [S1 EXCEPT !.hung = TRUE]
                       ELSE expandAll(S1)
                  ELSE collapseAll(S1))
    /\ searches' = [searches EXCEPT ![q] = @ - 1]
    /\ last' = Op("searchDone", NoGuid, <<>>, ids, q, null)
    /\ UNCHANGED <<fetches, refreshes, loadedFor>>

\* the change subscription of the entry at index i fires: entryHandler up to
\* its await
RefreshStart(i) ==
    /\ ~hung
    /\ i \in 1..Len(entries)
    /\ Cardinality(refreshes) < MaxPending
    /\ refreshes' = refreshes \cup
                    {[guid |-> entries[i].guid, optParent |-> entries[i].optParent]}
    /\ Commit(St)
    /\ last' = Op("refreshStart", entries[i].guid, <<>>, {}, "", FALSE)
    /\ UNCHANGED <<fetches, searches, loadedFor>>

\* entryHandler after its await: getObject gave the record (exists) or null
RefreshDone(r, exists) ==
    /\ ~hung
    /\ r \in refreshes
    /\ Commit(IF exists
              THEN IF FindIndex(entries, r.guid) # 0
                   THEN setEntry(St, r.guid, r.optParent) ELSE St
              ELSE removeEntry(St, r.guid))
    /\ refreshes' = refreshes \ {r}
    /\ last' = Op("refreshDone", r.guid, <<>>, {}, "", ~exists)
    /\ UNCHANGED <<fetches, searches, loadedFor>>

AddValidationMessage(m) ==
    /\ ~hung
    /\ Len(validationMessages) < MaxMsgs
    /\ Commit(addValidationMessage(St, m))
    /\ last' = Op("addValidationMessage", NoGuid, <<>>, {}, m.id, m.fatal)
    /\ UNCHANGED <<fetches, searches, refreshes, loadedFor>>

RemoveValidationMessage(id) ==
    /\ ~hung
    /\ Commit(removeValidationMessage(St, id))
    /\ last' = Op("removeValidationMessage", NoGuid, <<>>, {}, id,
                  \E i \in 1..Len(validationMessages) : validationMessages[i].id = id)
    /\ UNCHANGED <<fetches, searches, refreshes, loadedFor>>

\* ------------------------------------------------------------------------
\* Initial states and specifications
\* ------------------------------------------------------------------------
\* parent reference and root attribute of the records: a chain 1 <- 2 <- ...
\* whose head is flagged root, and the same with the last record parentless
\* and not flagged root
DbChain == [parent |-> [g \in Guids |-> g - 1], root |-> [g \in Guids |-> g = 1]]

DbOrphan ==
    [parent |-> [g \in Guids |-> IF g = MaxGuid THEN NoGuid ELSE g - 1],
     root   |-> [g \in Guids |-> g = 1]]

PropsOf(loadFull, stateManagement, holdSelection, relationType, searchEnabled, sharedKey) ==
    [loadFull |-> loadFull, stateManagement |-> stateManagement,
     holdSelection |-> holdSelection, relationType |-> relationType,
     searchEnabled |-> searchEnabled /\ loadFull, sharedKey |-> sharedKey]

EmptyStorage == [k \in StorageKeys |-> <<>>]

\* what an earlier session may have left in the browser's storage
StoredBefore ==
    {EmptyStorage,
     [k \in StorageKeys |->
        IF k = "c2" THEN <<>> ELSE <<TableState("c1", {1, 2}, {1, 2})>>]}

InitWith(P, D, Stores) ==
    /\ props \in P
    /\ db \in D
    /\ storage \in Stores
    /\ contextObject = NoContext
    /\ entries = <<>>
    /\ filter = {}
    /\ searchQuery = ""
    /\ isLoading = FALSE
    /\ resetState = FALSE
    /\ expandedMapping = [c \in Contexts |-> <<>>]
    /\ validationMessages = <<>>
    /\ writes = <<>>
    /\ fetches = [c \in Contexts |-> 0]
    /\ loads = {}
    /\ searches = [q \in Queries |-> 0]
    /\ refreshes = {}
    /\ subscriptions = [g \in Guids |-> 0]
    /\ loadedFor = NoContext
    /\ hung = FALSE
    /\ steps = 0
    /\ last = [op |-> "init", guid |-> NoGuid, recs |-> <<>>, ids |-> {},
               str |-> "", flag |-> FALSE, expired |-> FALSE, prevQuery |-> "",
               issued |-> "",
               prevSel |-> NoGuid]

\* The lazy scenario (nodeLoadScenario = "top"): one context, children loaded
\* on demand for the records 1 and 2.
LazyGuids == 1..2

LazyLists == SeqsUpTo(LazyGuids, MaxLen)

LazyKinds == {k \in LoadKinds : k.parent \in LazyGuids}

InitLazy ==
    InitWith({PropsOf(FALSE, FALSE, FALSE, "nodeParent", FALSE, FALSE)},
             {DbChain}, {EmptyStorage})

NextLazy ==
    \/ ReceiveProps("c1")
    \/ \E recs \in LazyLists, null \in BOOLEAN : FetchDataDone("c1", recs, null, FALSE)
    \/ \E g \in LazyGuids, e \in BOOLEAN : ExpandKey(g, e)
    \/ \E g \in LazyGuids : LoadEntryChildren(g)
    \/ \E k \in LazyKinds, recs \in LazyLists, null \in BOOLEAN :
          FetchChildrenDone(k, recs, null)
    \/ \E i \in 1..Len(entries) : RefreshStart(i)
    \/ \E r \in refreshes, x \in BOOLEAN : RefreshDone(r, x)

SpecLazy == InitLazy /\ [][NextLazy]_vars

\* The eager scenario (nodeLoadScenario = "all") with state management and
\* selection; the storage may hold a snapshot of an earlier session.
InitFull ==
    InitWith({PropsOf(TRUE, TRUE, TRUE, "nodeParent", FALSE, FALSE)},
             {DbOrphan}, StoredBefore)

Next ==
    \/ ReceiveProps("c1")
    \/ \E recs \in RecordLists, null, x \in BOOLEAN : FetchDataDone("c1", recs, null, x)
    \/ \E g \in Guids, e \in BOOLEAN : ExpandKey(g, e)
    \/ \E g \in Guids : SelectEntry(g)
    \/ \E g \in Guids : SetSelectedFromExternal(g)
    \/ \E i \in 1..Len(entries) : RefreshStart(i)
    \/ \E r \in refreshes, x \in BOOLEAN : RefreshDone(r, x)

Spec == InitFull /\ [][Next]_vars

\* The eager scenario with search.
InitSearch ==
    InitWith({PropsOf(TRUE, FALSE, FALSE, "nodeParent", TRUE, FALSE)},
             {DbChain}, {EmptyStorage})

NextSearch ==
    \/ ReceiveProps("c1")
    \/ \E recs \in RecordLists, null \in BOOLEAN : FetchDataDone("c1", recs, null, FALSE)
    \/ \E g \in Guids, e \in BOOLEAN : ExpandKey(g, e)
    \/ \E q \in Queries : Search(q)
    \/ \E q \in Queries, ids \in SUBSET Guids, null \in BOOLEAN : SearchDone(q, ids, null)

SpecSearch == InitSearch /\ [][NextSearch]_vars

\* Selection, with holding enabled or disabled, under state management.
InitSelect ==
    InitWith({PropsOf(TRUE, TRUE, h, "nodeParent", FALSE, FALSE) : h \in BOOLEAN},
             {DbOrphan}, StoredBefore)

NextSelect ==
    \/ ReceiveProps("c1")
    \/ \E recs \in RecordLists, null \in BOOLEAN : FetchDataDone("c1", recs, null, FALSE)
    \/ \E g \in Guids : SelectEntry(g)
    \/ \E i \in 1..Len(entries) : RefreshStart(i)
    \/ \E r \in refreshes, x \in BOOLEAN : RefreshDone(r, x)

SpecSelect == InitSelect /\ [][NextSelect]_vars

\* Two contexts under the eager scenario without state management: expansion is
\* kept per context in the transient cache.
InitContext ==
    InitWith({PropsOf(TRUE, FALSE, FALSE, "nodeParent", FALSE, FALSE)},
             {DbChain}, {EmptyStorage})

NextContext ==
    \/ \E c \in Contexts : ReceiveProps(c)
    \/ \E c \in Contexts, recs \in RecordLists, null \in BOOLEAN :
          FetchDataDone(c, recs, null, FALSE)
    \/ \E g \in Guids, e \in BOOLEAN : ExpandKey(g, e)

SpecContext == InitContext /\ [][NextContext]_vars

\* Validation messages come and go and the context is set and cleared while
\* the collection is loaded, expanded and selected in.
InitValidation ==
    InitWith({PropsOf(TRUE, FALSE, TRUE, "nodeParent", FALSE, FALSE)},
             {DbChain}, {EmptyStorage})

NextValidation ==
    \/ \E m \in Messages : AddValidationMessage(m)
    \/ \E id \in MsgIds : RemoveValidationMessage(id)
    \/ \E c \in {"c1", NoContext} : ReceiveProps(c)
    \/ \E recs \in LazyLists, null \in BOOLEAN : FetchDataDone("c1", recs, null, FALSE)
    \/ \E g \in LazyGuids, e \in BOOLEAN : ExpandKey(g, e)
    \/ \E g \in LazyGuids : SelectEntry(g)

SpecValidation == InitValidation /\ [][NextValidation]_vars

\* The lazy scenario with selection holding: the selection is set from
\* outside while children are loaded on demand.
InitReveal ==
    InitWith({PropsOf(FALSE, FALSE, TRUE, "nodeParent", FALSE, FALSE)},
             {DbChain}, {EmptyStorage})

NextReveal ==
    \/ ReceiveProps("c1")
    \/ \E recs \in LazyLists, null \in BOOLEAN : FetchDataDone("c1", recs, null, FALSE)
    \/ \E g \in LazyGuids, e \in BOOLEAN : ExpandKey(g, e)
    \/ \E k \in LazyKinds, recs \in LazyLists, null \in BOOLEAN :
          FetchChildrenDone(k, recs, null)
    \/ \E g \in LazyGuids : SetSelectedFromExternal(g)

SpecReveal == InitReveal /\ [][NextReveal]_vars

\* The eager scenario under either relation type: Entries are moved to another
\* parent.
InitParent ==
    InitWith({PropsOf(TRUE, FALSE, FALSE, r, FALSE, FALSE) :
                 r \in {"nodeParent", "nodeChildren"}},
             {DbChain}, {EmptyStorage})

NextParent ==
    \/ ReceiveProps("c1")
    \/ \E recs \in RecordLists, null \in BOOLEAN : FetchDataDone("c1", recs, null, FALSE)
    \/ \E n, t \in Guids \cup {NoGuid} : SwitchEntryParent(n, t)

SpecParent == InitParent /\ [][NextParent]_vars

\* The eager scenario with search and two contexts: the context is switched
\* while a search is active.
InitSearchContext ==
    InitWith({PropsOf(TRUE, FALSE, FALSE, "nodeParent", TRUE, FALSE)},
             {DbChain}, {EmptyStorage})

NextSearchContext ==
    \/ \E c \in Contexts : ReceiveProps(c)
    \/ \E c \in Contexts, recs \in LazyLists, null \in BOOLEAN :
          FetchDataDone(c, recs, null, FALSE)
    \/ \E g \in LazyGuids, e \in BOOLEAN : ExpandKey(g, e)
    \/ \E q \in Queries : Search(q)
    \/ \E q \in Queries, ids \in SUBSET LazyGuids, null \in BOOLEAN :
          SearchDone(q, ids, null)

SpecSearchContext == InitSearchContext /\ [][NextSearchContext]_vars

\* ------------------------------------------------------------------------
\* Claims
\* ------------------------------------------------------------------------
GuidsOf(es) == [i \in 1..Len(es) |-> es[i].guid]

\* the entry found for identifier g (g is in the collection)
EntryOf(es, g) == es[findEntry(es, g)]

RECURSIVE Dedupe(_)
\* the sequence without the later occurrences of its elements
Dedupe(s) ==
    IF s = <<>> THEN <<>>
    ELSE LET f == Dedupe(SubSeq(s, 1, Len(s) - 1))
         IN  IF s[Len(s)] \in Range(f) THEN f ELSE Append(f, s[Len(s)])

\* C1: in every reachable state no two Entries of the collection have the
\* same identifier.
C1_UniqueIds ==
    \A i, j \in 1..Len(entries) : i # j => entries[i].guid # entries[j].guid

\* C2: in every reachable state with selection holding enabled, at most one
\* Entry has isSelected = true (counted by identifier, so that two Entries
\* with one identifier count once).
C2_AtMostOneSelected ==
    props.holdSelection => Cardinality(selectedEntriesIds(entries)) <= 1

\* C3 as claimed: selectEntry(A) followed by selectEntry(B) leaves the set of
\* selected Entries equal to {B} for any identifiers A and B when holding is
\* enabled; when it is disabled no isSelected flag changes and nothing is
\* written to persistence.
C3_SelectTwiceExactlyB ==
    [][(last.op = "selectEntry" /\ last'.op = "selectEntry") =>
          IF props.holdSelection
          THEN selectedEntriesIds(entries') = {last'.guid}
          ELSE /\ entries' = entries
               /\ writes' = <<>>
               /\ storage' = storage]_vars

\* C3 as amended: selectEntry(A) followed by selectEntry(B) leaves exactly the
\* Entries with identifier B selected when B is in the collection, and no
\* Entry selected when it is not; with holding disabled nothing changes and
\* nothing is written.
C3_SelectTwiceBIfPresent ==
    [][(last.op = "selectEntry" /\ last'.op = "selectEntry") =>
          IF props.holdSelection
          THEN /\ selectedEntriesIds(entries') =
                      IF last'.guid \in Ids(entries') THEN {last'.guid} ELSE {}
               /\ GuidsOf(entries') = GuidsOf(entries)
          ELSE /\ entries' = entries
               /\ writes' = <<>>
               /\ storage' = storage]_vars

\* C3 witness: selectEntry(A) then selectEntry(B) ran with holding enabled,
\* A and B different Entries of the collection, and B is now selected.
C3_Witness ==
    /\ props.holdSelection
    /\ last.op = "selectEntry"
    /\ last.prevSel \in Ids(entries)
    /\ last.guid \in Ids(entries)
    /\ last.prevSel # last.guid
    /\ selectedEntriesIds(entries) = {last.guid}

\* C4: expandKey(id, true) on an Entry with isLoaded = false changes no Entry
\* in that step and puts one child load for that Entry with expandAfter = id in
\* flight; and an Entry turns expanded only in a step of expandKey(id, true)
\* that finds it loaded, or in the completion of a child load for id that
\* merged records with expandAfter = id.
C4_ExpandDefersToLoader ==
    [][/\ (/\ last'.op = "expandKey" /\ last'.flag
           /\ last'.guid \in Ids(entries)
           /\ ~EntryOf(entries, last'.guid).isLoaded)
          => LET k == [parent |-> last'.guid, ea |-> TRUE, attached |-> TRUE]
             IN  /\ entries' = entries
                 /\ loads' = SetCount(loads, k, CountOf(loads, k) + 1)
       /\ \A g \in Guids :
            (/\ g \in Ids(entries') /\ EntryOf(entries', g).isExpanded
             /\ ~(g \in Ids(entries) /\ EntryOf(entries, g).isExpanded))
            => \/ /\ last'.op = "expandKey" /\ last'.guid = g /\ last'.flag
                  /\ g \in Ids(entries) /\ EntryOf(entries, g).isLoaded
               \/ /\ last'.op = "fetchChildrenDone" /\ last'.guid = g
                  /\ last'.ids = {g} /\ ~last'.flag]_vars

\* C4 witness: expandKey(id, true) has just run on an Entry that is not loaded;
\* the Entry is not expanded and its load with expandAfter is in flight.
C4_Witness ==
    /\ last.op = "expandKey" /\ last.flag
    /\ last.guid \in Ids(entries)
    /\ ~EntryOf(entries, last.guid).isLoaded
    /\ ~EntryOf(entries, last.guid).isExpanded
    /\ CountOf(loads, [parent |-> last.guid, ea |-> TRUE, attached |-> TRUE]) > 0

\* C5: when a child load completes with records (other than the parent's own)
\* and merges them with expandAfter = id, id being in the collection, the Entry
\* id is expanded after that merge and no further load has been started.
C5_ExpandedAfterOneLoad ==
    [][(/\ last'.op = "fetchChildrenDone" /\ ~last'.flag
        /\ last'.recs # <<>> /\ last'.guid \notin Range(last'.recs)
        /\ last'.ids = {last'.guid}
        /\ last'.guid \in Ids(entries'))
       => /\ EntryOf(entries', last'.guid).isExpanded
          /\ LoadCount(loads') = LoadCount(loads) - 1]_vars

\* C6: a completed child load whose parent Entry is still the one held in the
\* collection leaves that Entry with isLoaded = true, and with
\* hasChildren = false when the fetch gave an empty list or null.
C6_LoaderMarksParent ==
    (/\ last.op = "fetchChildrenDone" /\ last.str = "attached"
     /\ last.guid \in Ids(entries) /\ last.guid \notin Range(last.recs))
    => /\ EntryOf(entries, last.guid).isLoaded
       /\ last.recs = <<>> => ~EntryOf(entries, last.guid).hasChildren

C8_CleanOnePerId ==
    last.op = "fetchDataDone" => GuidsOf(entries) = Dedupe(last.recs)

\* C9: a non-clean setEntries(records) keeps every existing identifier at its
\* index, leaves the Entries whose identifier is not in records untouched, and
\* appends the identifiers that were not in the collection once each, in the
\* order of records.
C9_MergeKeepsAndAppendsOnce ==
    [][(last'.op = "fetchChildrenDone" /\ ~last'.flag)
       => LET recs == last'.recs
              fresh == SelectSeq(recs, LAMBDA g : g \notin Ids(entries))
          IN  /\ Len(entries') = Len(entries) + Cardinality(Range(fresh))
              /\ GuidsOf(entries') = GuidsOf(entries) \o Dedupe(fresh)
              /\ \A i \in 1..Len(entries) :
                    (entries[i].guid \notin Range(recs) /\ entries[i].guid # last'.guid)
                    => entries'[i] = entries[i]]_vars

\* C10: after search(q), q non-empty, has completed with a non-empty match set,
\* every matched Entry of the collection is in the derived list and
\* highlighted, and each of its ancestors is in the derived list and tree, is
\* expanded, and is not highlighted unless it is matched itself.
C10_SearchShowsAncestors ==
    (last.op = "searchDone" /\ last.str # "" /\ ~last.flag /\ last.ids # {} /\ ~hung)
    => LET L == entryList(St)
           InList(g, h) == \E k \in 1..Len(L) : L[k].guid = g /\ L[k].highlight = h
       IN  \A g \in last.ids \cap Ids(entries) :
              /\ InList(g, TRUE)
              /\ \A a \in Range(getParents(entries, g)) :
                    /\ entries[a].isExpanded
                    /\ \E k \in entryTree(L) : L[k].guid = entries[a].guid
                    /\ InList(entries[a].guid, entries[a].guid \in last.ids)

\* C11: after search("") has completed with a result, the derived list holds
\* every Entry of the collection, none of them highlighted, and no Entry is
\* expanded (so none that an earlier search expanded).
C11_EmptySearchShowsAll ==
    (last.op = "searchDone" /\ last.str = "" /\ ~last.flag)
    => LET L == entryList(St)
       IN  /\ [k \in 1..Len(L) |-> L[k].guid] = GuidsOf(entries)
           /\ \A k \in 1..Len(L) : ~L[k].highlight
           /\ \A i \in 1..Len(entries) : ~entries[i].isExpanded

\* C12: when a clean setEntries restores from a stored snapshot that has not
\* expired (full-load and stateful mode, context set), the selected and the
\* expanded identifiers afterwards are exactly the stored selected and expanded
\* keys that are identifiers of the loaded records.
C12_RestoreIsStoredKeysPresent ==
    [][(/\ last'.op = "fetchDataDone" /\ ~last'.expired
        /\ stateFull /\ contextObject # NoContext
        /\ storage[StorageKey(contextObject)] # <<>>)
       => LET stored == storage[StorageKey(contextObject)][1]
          IN  /\ selectedEntriesIds(entries') = stored.selected \cap Range(last'.recs)
              /\ expandedKeys(entries') = stored.expanded \cap Range(last'.recs)]_vars

\* C12 witness: the initial load of the record 1 alone has restored selection
\* and expansion of Entry 1 from a snapshot that had not expired.
C12_Witness ==
    /\ last.op = "fetchDataDone" /\ ~last.expired /\ stateFull
    /\ last.recs = <<1>>
    /\ selectedEntriesIds(entries) = {1}
    /\ expandedKeys(entries) = {1}

\* the keys held for a context in the transient cache
CachedKeys(m, c) == IF m[c] = <<>> THEN {} ELSE m[c][1]

\* C13: with no search active, setContext while the context is C1 and the
\* collection is the one loaded for C1 records the expanded keys of the
\* collection for C1, in the cache and in a write tagged C1, and then adopts
\* the new context; while the collection is not the one loaded for C1 (its
\* load is still pending) the keys kept for C1 stay what they were; and the
\* clean load of C1's records under context C1 expands exactly the keys kept
\* for C1 that are loaded.
C13_SnapshotThenRestore ==
    [][/\ (last'.op = "setContext" /\ contextObject # NoContext /\ searchQuery = "")
          => /\ contextObject' = last'.str
             /\ IF loadedFor = contextObject
                THEN /\ expandedMapping'[contextObject] = <<expandedKeys(entries)>>
                     /\ writes' # <<>>
                     /\ writes'[1] = TableState(contextObject, expandedKeys(entries),
                                                selectedEntriesIds(entries))
                ELSE CachedKeys(expandedMapping', contextObject)
                        = CachedKeys(expandedMapping, contextObject)
       /\ (/\ last'.op = "fetchDataDone" /\ last'.str = contextObject
           /\ props.loadFull /\ ~stateFull)
          => expandedKeys(entries')
                = CachedKeys(expandedMapping, contextObject) \cap Range(last'.recs)]_vars

\* C14: while the store is disabled, setEntries, selectEntry and expandKey
\* leave the collection with every flag, the filter and the search query
\* unchanged.
C14_DisabledIsReadOnly ==
    [][(/\ disabled(St)
        /\ last'.op \in {"fetchDataDone", "selectEntry", "expandKey"})
       => /\ entries' = entries
          /\ filter' = filter
          /\ searchQuery' = searchQuery]_vars

\* C15: in every reachable state disabled is true if and only if a validation
\* message with fatal = true is present or contextObject is null.
C15_DisabledIffFatalOrNoContext ==
    disabled(St) <=>
        \/ \E i \in 1..Len(validationMessages) : validationMessages[i].fatal
        \/ contextObject = NoContext

\* C15 witness: a message has just been removed; a context is set and a message
\* that is not fatal is still present, and the store is not disabled.
C15_Witness ==
    /\ last.op = "removeValidationMessage" /\ last.flag
    /\ contextObject # NoContext
    /\ validationMessages # <<>>
    /\ ~disabled(St)

\* C16: when search(q) is called on a loaded collection and the search handler
\* then returns null, with nothing else run in between, the search query is
\* what it was before the call, the filter and every Entry are unchanged, and
\* isLoading is false.
C16_FailedSearchIsNoOp ==
    [][(/\ last.op = "search" /\ entries # <<>>
        /\ last'.op = "searchDone" /\ last'.flag /\ last'.str = last.str)
       => /\ searchQuery' = last.prevQuery
          /\ filter' = filter
          /\ entries' = entries
          /\ ~isLoading']_vars

\* C17: after setSelectedFromExternal(id) with selection holding enabled and id
\* in a collection that holds no identifier twice, the expanded Entries are
\* exactly the ancestors of id and id is the only selected Entry; with holding
\* disabled or id not in the collection no Entry changes.
C17_RevealAndSelect ==
    [][(/\ last'.op = "setSelectedFromExternal" /\ ~hung'
        /\ Cardinality(Ids(entries)) = Len(entries))
       => IF props.holdSelection /\ last'.guid \in Ids(entries)
          THEN /\ expandedKeys(entries')
                    = {entries[i].guid : i \in Range(getParents(entries, last'.guid))}
               /\ selectedEntriesIds(entries') = {last'.guid}
          ELSE entries' = entries]_vars

\* C18: an initial load issued for one context that completes while another
\* context is the current one, and a child load that completes when its parent
\* Entry is no longer in the collection, leave the Entries as they are.
C18_SupersededLoadIgnored ==
    [][(\/ last'.op = "fetchDataDone" /\ last'.str # contextObject
        \/ /\ last'.op = "fetchChildrenDone"
           /\ last'.guid \notin Ids(entries)
           /\ last'.guid \notin Range(last'.recs))
       => entries' = entries]_vars

\* C19: at most one child load per node is in flight at any time.
C19_OneLoadPerNode ==
    \A x \in loads :
        /\ x.n <= 1
        /\ \A y \in loads : y.kind.parent = x.kind.parent => y = x

\* C20: the ancestor walk of getParents terminates for every parent mapping the
\* collection can hold, so setSelectedFromExternal and the derivation of the
\* search view never leave the store stuck in it.
C20_GetParentsTerminates == ~hung

\* C21: in every reachable state the active change subscriptions are those of
\* the Entries in the collection: no Entry that left the collection (removed,
\* replaced by a merge, or discarded by a clean setEntries) is still subscribed.
C21_NoSubscriptionOutsideCollection ==
    \A g \in Guids :
        subscriptions[g] = Cardinality({i \in 1..Len(entries) : entries[i].guid = g})

\* C22: in every reachable state no Entry is expanded while its children are
\* not loaded.
C22_ExpandedImpliesLoaded ==
    \A i \in 1..Len(entries) : entries[i].isExpanded => entries[i].isLoaded

\* expandKey(g, true) has just expanded a loaded Entry while another Entry of
\* the collection is not loaded
C22_Witness ==
    /\ last.op = "expandKey" /\ last.flag
    /\ \E i \in 1..Len(entries) : entries[i].guid = last.guid /\ entries[i].isExpanded
    /\ \E i \in 1..Len(entries) : ~entries[i].isLoaded

\* C23: every snapshot written by selectEntry or by expandKey with notification
\* carries the current context and exactly the identifiers expanded and selected
\* when the operation ends, and none is written while no context is set.
C23_SnapshotIsCurrentState ==
    [][(last'.op \in {"selectEntry", "expandKey"})
       => /\ contextObject' = NoContext => writes' = <<>>
          /\ \A k \in 1..Len(writes') :
                writes'[k] = TableState(contextObject', expandedKeys(entries'),
                                        selectedEntriesIds(entries'))]_vars

\* selectEntry has just written a snapshot that names an expanded and a
\* selected Entry
C23_Witness ==
    /\ last.op = "selectEntry"
    /\ writes # <<>>
    /\ writes[1].expanded # {} /\ writes[1].selected = {last.guid}

\* C24: a clean setEntries that restores expansion and selection from an
\* unexpired stored snapshot writes no snapshot to persistence: the per-entry
\* changes of the restore are suppressed.
C24_RestoreWritesNothing ==
    [][(/\ last'.op = "fetchDataDone"
        /\ stateFull /\ contextObject # NoContext
        /\ storage[StorageKey(contextObject)] # <<>> /\ ~last'.expired)
       => writes' = <<>>]_vars

\* C25 as stated: after a clean restore from an unexpired stored snapshot every
\* snapshot written by the restore carries the complete restored selection, and
\* the selection held in persistence is the restored selection.
C25_PersistedSelectionIsRestored ==
    [][(/\ last'.op = "fetchDataDone"
        /\ stateFull /\ contextObject # NoContext
        /\ storage[StorageKey(contextObject)] # <<>> /\ ~last'.expired)
       => LET restored == storage[StorageKey(contextObject)][1].selected
                              \cap Ids(entries')
          IN  /\ \A k \in 1..Len(writes') : writes'[k].selected = restored
              /\ storage'[StorageKey(contextObject)][1].selected = restored]_vars

\* C25, amended: every snapshot written by the restore carries the complete
\* restored selection, and when the restore expands at least one Entry the
\* selection held in persistence afterwards is the restored selection.
C25_ExpansionWritesCarrySelection ==
    [][(/\ last'.op = "fetchDataDone"
        /\ stateFull /\ contextObject # NoContext
        /\ storage[StorageKey(contextObject)] # <<>> /\ ~last'.expired)
       => LET restored == storage[StorageKey(contextObject)][1].selected
                              \cap Ids(entries')
          IN  /\ \A k \in 1..Len(writes') : writes'[k].selected = restored
              /\ expandedKeys(entries') # {}
                    => storage'[StorageKey(contextObject)][1].selected = restored]_vars

\* a load has just restored two selected and two expanded Entries: its first
\* write, made when one Entry only was expanded, names both selected keys
C25_Witness ==
    /\ last.op = "fetchDataDone"
    /\ Len(writes) = 2
    /\ writes[1].selected = {1, 2} /\ writes[1].expanded = {1}
    /\ selectedEntriesIds(entries) = {1, 2}

\* C26: setContext called while the search query is not empty leaves the
\* per-context expansion cache unchanged and writes no snapshot; it adopts the
\* new context, may flag the reset, and changes nothing else of the collection
\* or the search.
C26_NoSnapshotDuringSearch ==
    [][(last'.op = "setContext" /\ searchQuery # "")
       => /\ expandedMapping' = expandedMapping
          /\ writes' = <<>>
          /\ contextObject' = last'.str
          /\ resetState' = (\/ resetState
                             \/ contextObject = NoContext \/ last'.str = NoContext
                             \/ contextObject # last'.str)
          /\ entries' = entries /\ filter' = filter
          /\ searchQuery' = searchQuery]_vars

\* the context has just been switched from c1 to c2 during a search that left
\* an Entry expanded, and the cache holds no such key for c1
C26_Witness ==
    /\ last.op = "setContext" /\ last.str = "c2"
    /\ loadedFor = "c1"
    /\ searchQuery # ""
    /\ expandedKeys(entries) # {}
    /\ expandedMapping["c1"] # <<expandedKeys(entries)>>

\* C27: in every reachable state the filter set is empty whenever the search
\* query is the empty string.
C27_NoQueryNoFilter == searchQuery = "" => filter = {}

\* C28: when search(q1) and then search(q2) were called and q2's result has been
\* applied, the late result of q1 changes nothing: the filter stays the result
\* returned for q2, the query stays q2, and no Entry changes its expansion.
C28_LatestSearchWins ==
    [][(/\ last.op = "searchDone" /\ ~last.flag
        /\ last.str = last.issued /\ searchQuery = last.issued
        /\ entries # <<>>
        /\ last'.op = "searchDone" /\ last'.str # last.issued)
       => /\ filter' = filter
          /\ searchQuery' = last.issued
          /\ entries' = entries]_vars

\* C29: a refresh that completes with its record when no Entry of the
\* collection has that identifier changes no Entry; a refresh whose resolver
\* returns null leaves the collection without that identifier and with every
\* other Entry unchanged and in its order.
C29_RefreshRespectsRemoval ==
    [][(last'.op = "refreshDone")
       => IF last'.flag
          THEN entries' = SelectSeq(entries, LAMBDA e : e.guid # last'.guid)
          ELSE last'.guid \notin Ids(entries) => entries' = entries]_vars

\* C30: a record refresh that replaces an Entry of the collection leaves the
\* isExpanded, isSelected and isLoaded flags of every Entry as they were; and
\* when a child load has completed, the Entry held for its parent is marked
\* loaded, also when a refresh has replaced that Entry in the meantime.
C30_MergePreservesFlags ==
    [][/\ (last'.op = "refreshDone" /\ ~last'.flag)
          => /\ Len(entries') = Len(entries)
             /\ \A i \in 1..Len(entries) :
                   /\ entries'[i].isExpanded = entries[i].isExpanded
                   /\ entries'[i].selected = entries[i].selected
                   /\ entries'[i].isLoaded = entries[i].isLoaded
       /\ (/\ last'.op = "fetchChildrenDone"
           /\ last'.guid \in Ids(entries')
           /\ last'.guid \notin Range(last'.recs))
          => EntryOf(entries', last'.guid).isLoaded]_vars

\* no walk up the parent mapping from an Entry of the collection goes round
Acyclic(es) == \A g \in Ids(es) : ~Diverges(es, g)

\* C31: switchEntryParent(node, target) on a collection whose parent mapping is
\* acyclic leaves the mapping acyclic; and it changes no Entry when the
\* relation type is children-as-references, when node is a root, or when node
\* or target is not in the collection.
C31_SwitchKeepsAcyclic ==
    [][(last'.op = "switchEntryParent")
       => LET node == last'.guid
              target == last'.recs[1]
          IN  /\ Acyclic(entries) => Acyclic(entries')
              /\ (\/ props.relationType = "nodeChildren"
                  \/ node \notin Ids(entries) \/ target \notin Ids(entries)
                  \/ EntryOf(entries, node).root)
                 => entries' = entries]_vars

====
